---- MODULE Spec2Model ----
(***************************************************************************)
(* SlackEndpoint (endpoints/slack.py): one webhook request is received,    *)
(* classified, and - when eligible - answered through three collaborator   *)
(* calls (conversations_replies, chat.invoke, chat_postMessage).           *)
(*                                                                         *)
(* Python strings are TLA+ strings.  An optional value (a dict key that    *)
(* may be missing, a header that may be missing, None) is the empty set    *)
(* when missing and the singleton {v} when present.  The fields of an      *)
(* event are missing or non-empty strings, as Slack sends them.            *)
(***************************************************************************)
EXTENDS Integers, Sequences, FiniteSets, TLC

VARIABLES
    req,             \* the request being handled: headers, settings, payload
    pc,              \* where the handler stands
    message,         \* _process_and_respond's parameter message
    channel,         \* _process_and_respond's parameter channel
    thread_ts,       \* _process_and_respond's parameter thread_ts (optional)
    thread_history,  \* the local thread_history
    answer,          \* response.get("answer") of the backend's response
    exc,             \* the exception caught by the outer handler (str(e))
    response,        \* what _invoke hands back to the framework
    calls,           \* the collaborator calls of this request, in order
    convLog,         \* every backend invocation so far, with its event
    served           \* number of requests received

vars == <<req, pc, message, channel, thread_ts, thread_history, answer, exc,
          response, calls, convLog, served>>

-----------------------------------------------------------------------------
(* Bounds *)

\* longest reply list conversations_replies returns
MaxReplies == 2
\* number of requests of one behaviour of SpecConv
MaxRequests == 2

-----------------------------------------------------------------------------
(* Optional values and Python's conversions *)

Absent == {}
Some(v) == {v}
Val(o) == CHOOSE v \in o : TRUE

\* dict.get(key, default)
Get(o, default) == IF o = Absent THEN default ELSE Val(o)

\* truth value of an optional string: None and "" are false
TruthyStr(o) == o # Absent /\ Val(o) # ""

\* truth value of an optional boolean setting
TruthyBool(o) == o # Absent /\ Val(o) = TRUE

\* f"{x}" of an optional string: None prints as None
Format(o) == IF o = Absent THEN "None" ELSE Val(o)

\* str.startswith
StartsWith(s, p) == Len(s) >= Len(p) /\ SubSeq(s, 1, Len(p)) = p

\* str.find, 1-based; 0 when sub does not occur at or after position i
RECURSIVE FindFrom(_, _, _)
FindFrom(s, sub, i) ==
    IF i + Len(sub) - 1 > Len(s) THEN 0
    ELSE IF SubSeq(s, i, i + Len(sub) - 1) = sub THEN i
    ELSE FindFrom(s, sub, i + 1)

\* sub in s
Contains(s, sub) == FindFrom(s, sub, 1) # 0

\* s.split(sub, 1)[1], for s that contains sub
AfterFirst(s, sub) == SubSeq(s, FindFrom(s, sub, 1) + Len(sub), Len(s))

Digits == {"0", "1", "2", "3", "4", "5", "6", "7", "8", "9"}

\* int(s) succeeds: an optional sign and at least one digit
IsIntLiteral(s) ==
    LET body == IF Len(s) > 0 /\ SubSeq(s, 1, 1) \in {"+", "-"}
                THEN SubSeq(s, 2, Len(s)) ELSE s
    IN  Len(body) > 0 /\ \A i \in 1..Len(body) : SubSeq(body, i, i) \in Digits

DigitValue(d) ==
    CASE d = "0" -> 0 [] d = "1" -> 1 [] d = "2" -> 2 [] d = "3" -> 3
      [] d = "4" -> 4 [] d = "5" -> 5 [] d = "6" -> 6 [] d = "7" -> 7
      [] d = "8" -> 8 [] d = "9" -> 9

RECURSIVE NatOf(_)
NatOf(s) ==
    IF Len(s) = 0 THEN 0
    ELSE 10 * NatOf(SubSeq(s, 1, Len(s) - 1)) + DigitValue(SubSeq(s, Len(s), Len(s)))

\* int(s), for s with IsIntLiteral(s)
IntOf(s) ==
    IF SubSeq(s, 1, 1) = "-" THEN 0 - NatOf(SubSeq(s, 2, Len(s)))
    ELSE IF SubSeq(s, 1, 1) = "+" THEN NatOf(SubSeq(s, 2, Len(s)))
    ELSE NatOf(s)

\* json.dumps of a string: quotes and backslashes are escaped
RECURSIVE JsonEscape(_)
JsonEscape(s) ==
    IF Len(s) = 0 THEN ""
    ELSE LET c == SubSeq(s, 1, 1)
             rest == JsonEscape(SubSeq(s, 2, Len(s)))
         IN  IF c = "\"" THEN "\\\"" \o rest
             ELSE IF c = "\\" THEN "\\\\" \o rest
             ELSE c \o rest

\* the body built by string formatting: nothing is escaped, None prints as None
JsonDumpsChallengeUnescaped(token) ==
    "{\"challenge\": \"" \o Format(token) \o "\"}"

\* json.dumps({"challenge": token})
JsonDumpsChallenge(token) ==
    "{\"challenge\": "
        \o (IF token = Absent THEN "null" ELSE "\"" \o JsonEscape(Val(token)) \o "\"")
        \o "}"

-----------------------------------------------------------------------------
(* The requests the endpoint is offered *)

\* X-Slack-Retry-Num: missing, "0", "1", or not a number
RetryNums == {Absent, Some("0"), Some("1"), Some("x")}

\* X-Slack-Retry-Reason: missing, Slack's "http_timeout", or another reason
RetryReasons == {Absent, Some("http_timeout"), Some("timeout")}

\* settings.get("allow_retry")
AllowRetrySettings == {Absent, Some(FALSE), Some(TRUE)}

EventTexts == {Absent, Some("hi"), Some("<@U1> hi"), Some("<@U1>")}
EventChannels == {Absent, Some("D1"), Some("C1")}
EventTs == {Absent, Some("1"), Some("2")}
EventThreadTs == {Absent, Some("1")}

Event(type, text, ch, ts, tts, bot_id, subtype) ==
    [type |-> type, text |-> text, channel |-> ch, ts |-> ts, thread_ts |-> tts,
     bot_id |-> bot_id, subtype |-> subtype]

MentionEvents ==
    {Event(Some("app_mention"), text, ch, ts, tts, Absent, Absent) :
        text \in EventTexts, ch \in EventChannels, ts \in EventTs, tts \in EventThreadTs}

\* a human's message, a bot's message carrying bot_id, a bot's message by subtype
MessageEvents ==
    {Event(Some("message"), text, ch, ts, tts, b[1], b[2]) :
        text \in EventTexts, ch \in EventChannels, ts \in EventTs, tts \in EventThreadTs,
        b \in {<<Absent, Absent>>, <<Some("B1"), Absent>>, <<Absent, Some("bot_message")>>}}

OtherEvents ==
    {Event(Some("reaction_added"), Absent, Some("C1"), Some("1"), Absent, Absent, Absent),
     Event(Absent, Absent, Absent, Absent, Absent, Absent, Absent)}

Events == MentionEvents \cup MessageEvents \cup OtherEvents

Challenges == {Absent, Some("tok"), Some("a\"b")}

\* r.get_json(): it raises, or yields something that is no JSON object, or a dict
Payload(parse, type, challenge, event) ==
    [parse |-> parse, type |-> type, challenge |-> challenge, event |-> event]

Payloads ==
    {Payload("raises", Absent, Absent, Absent), Payload("non_object", Absent, Absent, Absent)}
    \cup {Payload("object", Some("url_verification"), c, Absent) : c \in Challenges}
    \cup {Payload("object", t, Absent, Absent) : t \in {Absent, Some("app_rate_limited")}}
    \cup {Payload("object", Some("event_callback"), Absent, Absent)}
    \cup {Payload("object", Some("event_callback"), Absent, Some(e)) : e \in Events}

Request(num, reason, allow, payload) ==
    [retry_num |-> num, retry_reason |-> reason, allow_retry |-> allow, payload |-> payload]

Requests ==
    {Request(num, reason, allow, p) :
        num \in RetryNums, reason \in RetryReasons, allow \in AllowRetrySettings,
        p \in Payloads}

\* first deliveries of mentions and human messages that carry a ts
ThreadRequests ==
    {Request(Absent, Absent, Absent, Payload("object", Some("event_callback"), Absent, Some(e))) :
        e \in {x \in MentionEvents \cup MessageEvents :
                 /\ x.bot_id = Absent /\ x.subtype = Absent
                 /\ x.ts # Absent /\ x.channel # Absent /\ x.text = Some("<@U1> hi")}}

-----------------------------------------------------------------------------
(* Responses and exceptions *)

NoResponse == [kind |-> "none"]

\* werkzeug Response(status, response, content_type)
Response(status, body, content_type) ==
    [kind |-> "response", status |-> status, body |-> body, content_type |-> content_type]

\* an exception that leaves _invoke
Raised(e) == [kind |-> "raised", exc |-> e]

\* what _invoke has decided once the classification is over: a response (or an
\* escaping exception), or the arguments of _process_and_respond
Respond(resp) ==
    [next |-> "respond", response |-> resp, message |-> "", channel |-> "", thread_ts |-> Absent]

Process(m, ch, tts) ==
    [next |-> "process", response |-> NoResponse, message |-> m, channel |-> ch, thread_ts |-> tts]

-----------------------------------------------------------------------------
(* Classification: _invoke, _handle_mention, _handle_message *)

\* the leading mention is removed up to the first "> "
StripMention(text) ==
    IF StartsWith(text, "<@")
    THEN IF Contains(text, "> ") THEN AfterFirst(text, "> ") ELSE text
    ELSE text

\* the mention starts a conversation of its own: thread_ts is not looked at
HandleMentionOwnTs(event) ==
    Process(StripMention(Get(event.text, "")), Get(event.channel, ""), event.ts)

_handle_mention(event) ==
    Process(StripMention(Get(event.text, "")),
            Get(event.channel, ""),
            IF event.thread_ts # Absent THEN event.thread_ts ELSE event.ts)

\* only bot_id marks a bot: the bot_message subtype is not looked at
HandleMessageBotIdOnly(event) ==
    IF TruthyStr(event.bot_id)
    THEN Respond(Response(200, "ok", Absent))
    ELSE LET ch == Get(event.channel, "")
             is_dm == StartsWith(ch, "D")
         IN  IF ~is_dm /\ ~TruthyStr(event.thread_ts)
             THEN Respond(Response(200, "ok", Absent))
             ELSE Process(Get(event.text, ""), ch,
                          IF TruthyStr(event.thread_ts) THEN event.thread_ts ELSE event.ts)

\* every human message is answered: the DM-or-thread filter is missing
HandleMessageUnfiltered(event) ==
    IF TruthyStr(event.bot_id) \/ event.subtype = Some("bot_message")
    THEN Respond(Response(200, "ok", Absent))
    ELSE Process(Get(event.text, ""), Get(event.channel, ""),
                 IF TruthyStr(event.thread_ts) THEN event.thread_ts ELSE event.ts)

_handle_message(event) ==
    IF TruthyStr(event.bot_id) \/ event.subtype = Some("bot_message")
    THEN Respond(Response(200, "ok", Absent))
    ELSE LET ch == Get(event.channel, "")
             is_dm == StartsWith(ch, "D")
         IN  IF ~is_dm /\ ~TruthyStr(event.thread_ts)
             THEN Respond(Response(200, "ok", Absent))
             ELSE Process(Get(event.text, ""), ch,
                          IF TruthyStr(event.thread_ts) THEN event.thread_ts ELSE event.ts)

\* the first redelivery is let through: the count is compared with 1
RetryCheckOffByOne(r) ==
    IF TruthyBool(r.allow_retry) THEN "pass"
    ELSE IF r.retry_reason = Some("http_timeout") THEN "suppress"
    ELSE IF r.retry_num = Absent THEN "pass"
    ELSE IF ~IsIntLiteral(Val(r.retry_num)) THEN "raise"
    ELSE IF IntOf(Val(r.retry_num)) > 1 THEN "suppress"
    ELSE "pass"

\* the retry check of _invoke: "suppress" (return ok), "raise" (int() fails), "pass"
RetryCheck(r) ==
    IF TruthyBool(r.allow_retry) THEN "pass"
    ELSE IF r.retry_reason = Some("http_timeout") THEN "suppress"
    ELSE IF r.retry_num = Absent THEN "pass"
    ELSE IF ~IsIntLiteral(Val(r.retry_num)) THEN "raise"
    ELSE IF IntOf(Val(r.retry_num)) > 0 THEN "suppress"
    ELSE "pass"

\* _invoke after the retry check: get_json and the dispatch on the payload
Dispatch(data) ==
    IF data.parse = "raises" THEN Respond(Raised("BadRequest"))
    ELSE IF data.parse = "non_object" THEN Respond(Raised("AttributeError"))
    ELSE IF data.type = Some("url_verification")
    THEN Respond(Response(200, JsonDumpsChallenge(data.challenge), Some("application/json")))
    ELSE IF data.type = Some("event_callback")
    THEN IF data.event = Absent THEN Respond(Raised("AttributeError"))
         ELSE LET event == Val(data.event)
              IN  IF event.type = Some("app_mention") THEN _handle_mention(event)
                  ELSE IF event.type = Some("message") THEN _handle_message(event)
                  ELSE Respond(Response(200, "ok", Absent))
    ELSE Respond(Response(200, "ok", Absent))

_invoke(r) ==
    LET gate == RetryCheck(r)
    IN  IF gate = "suppress" THEN Respond(Response(200, "ok", Absent))
        ELSE IF gate = "raise" THEN Respond(Raised("ValueError"))
        ELSE Dispatch(r.payload)

-----------------------------------------------------------------------------
(* The collaborators: what the Slack client and the backend may do *)

\* a Slack client call succeeds, raises SlackApiError, or raises anything else
\* (a transport failure); str(e) of the two kinds of exception
SlackOutcomes == {"ok", "SlackApiError", "Exception"}
SlackErrorText(outcome) ==
    IF outcome = "SlackApiError" THEN "slack said no" ELSE "timed out"

\* chat.invoke returns a response with an answer, or raises
BackendOutcomes == {"ok", "Exception"}
\* response.get("answer"): the answer, or None when the response has none
BackendAnswers == {Some("pong"), Absent}
BackendErrorText == "backend failed"

\* a message of a thread as conversations_replies lists it
Reply(ts, bot_id, text) == [ts |-> ts, bot_id |-> bot_id, text |-> text]

ReplyMessages ==
    {Reply(Some("1"), Absent, Some("q")),
     Reply(Some("2"), Absent, Some("q")),
     Reply(Some("2"), Some("B1"), Absent)}

RECURSIVE SeqsUpTo(_, _)
SeqsUpTo(S, n) ==
    IF n = 0 THEN {<<>>}
    ELSE LET shorter == SeqsUpTo(S, n - 1)
         IN  shorter \cup {Append(q, x) : q \in shorter, x \in S}

\* result["messages"]: the key may be missing
ReplyResults == {Absent} \cup {Some(q) : q \in SeqsUpTo(ReplyMessages, MaxReplies)}

-----------------------------------------------------------------------------
(* _get_thread_history and _process_and_respond *)

\* the anchor is not skipped
RECURSIVE FormatHistoryKeepAnchor(_, _)
FormatHistoryKeepAnchor(messages, anchor) ==
    IF messages = <<>> THEN <<>>
    ELSE LET msg == Head(messages)
         IN  <<[role |-> IF TruthyStr(msg.bot_id) THEN "assistant" ELSE "user",
                content |-> Get(msg.text, "")]>>
                 \o FormatHistoryKeepAnchor(Tail(messages), anchor)

\* the loop of _get_thread_history over result.get("messages", [])
RECURSIVE FormatHistory(_, _)
FormatHistory(messages, anchor) ==
    IF messages = <<>> THEN <<>>
    ELSE LET msg == Head(messages)
             rest == FormatHistory(Tail(messages), anchor)
         IN  IF msg.ts = anchor THEN rest
             ELSE <<[role |-> IF TruthyStr(msg.bot_id) THEN "assistant" ELSE "user",
                     content |-> Get(msg.text, "")]>> \o rest

\* _get_thread_history's return value when it returns
_get_thread_history(outcome, result, anchor) ==
    IF outcome = "SlackApiError" THEN <<>>
    ELSE FormatHistory(Get(result, <<>>), anchor)

\* the two parts of the key in the other order
ConversationIdSwapped(ch, tts) == "slack-" \o Format(tts) \o "-" \o ch

\* f"slack-{channel}-{thread_ts}"
ConversationId(ch, tts) == "slack-" \o ch \o "-" \o Format(tts)

Apology == "Sorry, I'm having trouble processing your request. Please try again later."

EmptyRequest == Request(Absent, Absent, Absent, Payload("object", Absent, Absent, Absent))

Init ==
    /\ req = EmptyRequest
    /\ pc = "idle"
    /\ message = ""
    /\ channel = ""
    /\ thread_ts = Absent
    /\ thread_history = <<>>
    /\ answer = Absent
    /\ exc = Absent
    /\ response = NoResponse
    /\ calls = <<>>
    /\ convLog = {}
    /\ served = 0

\* where _process_and_respond starts: the history fetch is skipped without a thread_ts
ProcessEntry(tts) == IF TruthyStr(tts) THEN "history" ELSE "backend"

\* a request from S arrives, at most n per behaviour: _invoke up to its return or up
\* to the first collaborator call of _process_and_respond
Receive(S, n) ==
    /\ pc \in {"idle", "done"}
    /\ served < n
    /\ \E r \in S :
        LET d == _invoke(r)
        IN  /\ req' = r
            /\ message' = d.message
            /\ channel' = d.channel
            /\ thread_ts' = d.thread_ts
            /\ response' = d.response
            /\ pc' = IF d.next = "respond" THEN "done" ELSE ProcessEntry(d.thread_ts)
    /\ thread_history' = <<>>
    /\ answer' = Absent
    /\ exc' = Absent
    /\ calls' = <<>>
    /\ served' = served + 1
    /\ UNCHANGED convLog

\* thread_history = self._get_thread_history(client, channel, thread_ts)
GetThreadHistory ==
    /\ pc = "history"
    /\ \E outcome \in SlackOutcomes, result \in ReplyResults :
        /\ outcome # "ok" => result = Absent
        /\ calls' = Append(calls, [op |-> "conversations_replies", channel |-> channel,
                                   ts |-> thread_ts, outcome |-> outcome, result |-> result])
        /\ IF outcome = "Exception"
           THEN /\ exc' = Some(SlackErrorText(outcome))
                /\ pc' = "apology"
                /\ UNCHANGED thread_history
           ELSE /\ thread_history' = _get_thread_history(outcome, result, thread_ts)
                /\ pc' = "backend"
                /\ UNCHANGED exc
    /\ UNCHANGED <<req, message, channel, thread_ts, answer, response, convLog, served>>

\* response = self.session.app.chat.invoke(...); settings["app"]["app_id"] is taken
\* to be configured, so that building the arguments does not raise
ChatInvoke ==
    /\ pc = "backend"
    /\ \E outcome \in BackendOutcomes, ans \in BackendAnswers :
        LET call == [op |-> "chat.invoke", query |-> message, inputs |-> <<>>,
                     conversation_id |-> ConversationId(channel, thread_ts),
                     response_mode |-> "blocking", user |-> "slack-user",
                     outcome |-> outcome]
        IN  /\ calls' = Append(calls, call)
            /\ convLog' = convLog \cup {[event |-> Val(req.payload.event),
                                         conversation_id |-> call.conversation_id]}
            /\ outcome # "ok" => ans = Absent
            /\ IF outcome = "ok"
               THEN /\ answer' = ans
                    /\ pc' = "post"
                    /\ UNCHANGED exc
               ELSE /\ exc' = Some(BackendErrorText)
                    /\ pc' = "apology"
                    /\ UNCHANGED answer
    /\ UNCHANGED <<req, message, channel, thread_ts, thread_history, response, served>>

\* the return after a delivered answer is missing: the apology follows every post
PostAnswerFallsThrough ==
    /\ pc = "post"
    /\ \E outcome \in SlackOutcomes :
        /\ calls' = Append(calls, [op |-> "chat_postMessage", channel |-> channel,
                                   text |-> answer, thread_ts |-> thread_ts,
                                   outcome |-> outcome])
        /\ exc' = Some(SlackErrorText(outcome))
        /\ pc' = "apology"
    /\ UNCHANGED <<req, message, channel, thread_ts, thread_history, answer, response,
                   convLog, served>>

\* client.chat_postMessage(channel, text=response.get("answer"), thread_ts)
PostAnswer ==
    /\ pc = "post"
    /\ \E outcome \in SlackOutcomes :
        /\ calls' = Append(calls, [op |-> "chat_postMessage", channel |-> channel,
                                   text |-> answer, thread_ts |-> thread_ts,
                                   outcome |-> outcome])
        /\ CASE outcome = "ok" ->
                    /\ response' = Response(200, "ok", Absent)
                    /\ pc' = "done"
                    /\ UNCHANGED exc
             [] outcome = "SlackApiError" ->
                    /\ response' = Response(200, "Error sending message to Slack: "
                                                     \o SlackErrorText(outcome),
                                            Some("text/plain"))
                    /\ pc' = "done"
                    /\ UNCHANGED exc
             [] OTHER ->
                    /\ exc' = Some(SlackErrorText(outcome))
                    /\ pc' = "apology"
                    /\ UNCHANGED response
    /\ UNCHANGED <<req, message, channel, thread_ts, thread_history, answer, convLog, served>>

\* the outer except: the apology is posted and the error is reported with status 200
PostApology ==
    /\ pc = "apology"
    /\ \E outcome \in SlackOutcomes :
        /\ calls' = Append(calls, [op |-> "chat_postMessage", channel |-> channel,
                                   text |-> Some(Apology), thread_ts |-> thread_ts,
                                   outcome |-> outcome])
        /\ response' = IF outcome = "Exception"
                       THEN Raised(SlackErrorText(outcome))
                       ELSE Response(200, "An error occurred: " \o Val(exc),
                                     Some("text/plain"))
    /\ pc' = "done"
    /\ UNCHANGED <<req, message, channel, thread_ts, thread_history, answer, exc,
                   convLog, served>>

\* one request, any headers, settings and payload
Next ==
    \/ Receive(Requests, 1)
    \/ GetThreadHistory
    \/ ChatInvoke
    \/ PostAnswer
    \/ PostApology

Spec == Init /\ [][Next]_vars

\* several requests of threads, one after the other
NextConv ==
    \/ Receive(ThreadRequests, MaxRequests)
    \/ GetThreadHistory
    \/ ChatInvoke
    \/ PostAnswer
    \/ PostApology

SpecConv == Init /\ [][NextConv]_vars

-----------------------------------------------------------------------------
(* Vocabulary of the properties *)

IsOk200 ==
    response.kind = "response" /\ response.status = 200 /\ response.body = "ok"

IsHttp200 == response.kind = "response" /\ response.status = 200

CallsOf(op) == SelectSeq(calls, LAMBDA c : c.op = op)

\* the retry-count header holds an integer greater than zero
RetryCountPositive(r) ==
    /\ r.retry_num # Absent
    /\ IsIntLiteral(Val(r.retry_num))
    /\ IntOf(Val(r.retry_num)) > 0

\* retry-flagged, as Slack flags a retry: reason http_timeout, or a count above zero
RetryFlagged(r) == r.retry_reason = Some("http_timeout") \/ RetryCountPositive(r)

\* the retry-count header is read and is no integer
RetryCountMalformed(r) ==
    /\ r.retry_reason # Some("http_timeout")
    /\ r.retry_num # Absent
    /\ ~IsIntLiteral(Val(r.retry_num))

AllowRetryOff(r) == r.allow_retry \in {Absent, Some(FALSE)}

\* the request gets past the retry check and its payload is looked at
PastRetryCheck(r) ==
    \/ r.allow_retry = Some(TRUE)
    \/ ~RetryFlagged(r) /\ ~RetryCountMalformed(r)

\* the only way such a request ends otherwise: int() of the retry count raised
RaisedAtRetryCheck ==
    response = Raised("ValueError") /\ AllowRetryOff(req) /\ RetryCountMalformed(req)

IsEventOfType(r, t) ==
    /\ r.payload.parse = "object"
    /\ r.payload.type = Some("event_callback")
    /\ r.payload.event # Absent
    /\ Val(r.payload.event).type = Some(t)

EventOf(r) == Val(r.payload.event)

\* thread_ts if present, else the event's own ts
ResolvedIdentity(e) == IF e.thread_ts # Absent THEN e.thread_ts ELSE e.ts

IsAnswerPost(c) == c.op = "chat_postMessage" /\ c.text # Some(Apology)
IsApologyPost(c) == c.op = "chat_postMessage" /\ c.text = Some(Apology)

\* a JSON string's content decoded; Absent when it is no valid JSON string content
RECURSIVE JsonUnescape(_)
JsonUnescape(s) ==
    IF Len(s) = 0 THEN Some("")
    ELSE LET c == SubSeq(s, 1, 1)
         IN  IF c = "\"" THEN Absent
             ELSE IF c = "\\"
             THEN IF Len(s) < 2 \/ SubSeq(s, 2, 2) \notin {"\"", "\\"} THEN Absent
                  ELSE LET rest == JsonUnescape(SubSeq(s, 3, Len(s)))
                       IN  IF rest = Absent THEN Absent
                           ELSE Some(SubSeq(s, 2, 2) \o Val(rest))
             ELSE LET rest == JsonUnescape(SubSeq(s, 2, Len(s)))
                  IN  IF rest = Absent THEN Absent ELSE Some(c \o Val(rest))

\* a body read back as the JSON object {"challenge": <string or null>}
ChallengeOfBody(body) ==
    LET prefix == "{\"challenge\": "
        n == Len(body)
        mid == SubSeq(body, Len(prefix) + 1, n - 1)
    IN  IF ~StartsWith(body, prefix) \/ SubSeq(body, n, n) # "}"
        THEN [valid |-> FALSE, token |-> Absent]
        ELSE IF mid = "null" THEN [valid |-> TRUE, token |-> Absent]
        ELSE IF Len(mid) < 2 \/ SubSeq(mid, 1, 1) # "\""
                             \/ SubSeq(mid, Len(mid), Len(mid)) # "\""
        THEN [valid |-> FALSE, token |-> Absent]
        ELSE LET inner == JsonUnescape(SubSeq(mid, 2, Len(mid) - 1))
             IN  [valid |-> inner # Absent, token |-> inner]

-----------------------------------------------------------------------------
(* C1 *)

\* C1: every request handled by _invoke ends in an HTTP 200 response: no malformed
\* header, no payload shape and no collaborator failure produces anything else or
\* lets an exception escape.
C1_AlwaysHttp200 == pc = "done" => IsHttp200

-----------------------------------------------------------------------------
(* C2 *)

\* C2, as claimed: a request whose retry-reason is "timeout" or whose retry-count is
\* above zero, with allow_retry false or absent, makes no backend or platform call
\* and, when it is answered, is answered 200 "ok", whatever the payload.
C2_SuppressedOnReasonTimeout ==
    ( /\ served > 0
      /\ AllowRetryOff(req)
      /\ (req.retry_reason = Some("timeout") \/ RetryCountPositive(req)) )
    => /\ calls = <<>>
       /\ response.kind = "response" => IsOk200

\* C2, amended: a request whose retry-reason is "http_timeout" or whose retry-count is
\* above zero, with allow_retry false or absent, is answered 200 "ok" at once and
\* makes no backend or platform call, whatever the payload.
C2_SuppressedOnHttpTimeout ==
    (served > 0 /\ AllowRetryOff(req) /\ RetryFlagged(req))
    => pc = "done" /\ IsOk200 /\ calls = <<>>

\* a redelivered mention, flagged by its count alone, has been answered "ok"
C2_Witness ==
    /\ pc = "done"
    /\ req.allow_retry = Absent
    /\ req.retry_reason = Absent
    /\ req.retry_num = Some("1")
    /\ IsEventOfType(req, "app_mention")
    /\ IsOk200
    /\ calls = <<>>

-----------------------------------------------------------------------------
(* C3 *)

IsUrlVerification(r) ==
    r.payload.parse = "object" /\ r.payload.type = Some("url_verification")

EchoesChallenge ==
    /\ IsHttp200
    /\ ChallengeOfBody(response.body) = [valid |-> TRUE, token |-> req.payload.challenge]

\* C3, as claimed: a url_verification payload is answered 200 with the body
\* {"challenge": <the same token>} and no backend or platform call, whatever the
\* headers and settings.
C3_ChallengeWhateverHeaders ==
    (served > 0 /\ IsUrlVerification(req))
    => pc = "done" /\ EchoesChallenge /\ calls = <<>>

\* C3, amended: a url_verification payload never causes a backend or platform call;
\* it is answered 200 with the body {"challenge": <the same token>} whenever the
\* request gets past the retry check, which comes first; a retry-flagged request with
\* allow_retry false or absent is answered "ok" instead, and the only other ending is
\* the retry count failing to parse.
C3_ChallengeAfterRetryCheck ==
    (served > 0 /\ IsUrlVerification(req))
    => /\ pc = "done"
       /\ calls = <<>>
       /\ PastRetryCheck(req) => EchoesChallenge
       /\ (AllowRetryOff(req) /\ RetryFlagged(req)) => IsOk200
       /\ ~IsHttp200 => RaisedAtRetryCheck

\* a token that needs escaping has been echoed to a request with a retry count of 0
C3_Witness ==
    /\ pc = "done"
    /\ IsUrlVerification(req)
    /\ req.payload.challenge = Some("a\"b")
    /\ req.retry_num = Some("0")
    /\ req.allow_retry = Some(FALSE)
    /\ response.body = "{\"challenge\": \"a\\\"b\"}"
    /\ response.content_type = Some("application/json")

-----------------------------------------------------------------------------
(* C4 *)

IsBotMessage(r) ==
    /\ IsEventOfType(r, "message")
    /\ (EventOf(r).bot_id # Absent \/ EventOf(r).subtype = Some("bot_message"))

\* C4: a message event that comes from a bot (bot_id present, or subtype bot_message)
\* makes no backend and no platform call, in a DM and in a thread too, and
\* _handle_message answers 200 "ok"; the request ends otherwise only when the retry
\* check raised before the handler was reached.
C4_BotMessagesDiscarded ==
    (served > 0 /\ IsBotMessage(req))
    => /\ pc = "done"
       /\ calls = <<>>
       /\ convLog = {}
       /\ IsOk200 \/ RaisedAtRetryCheck
       /\ PastRetryCheck(req) => IsOk200

\* a bot's message by subtype, in a DM and in a thread, reached the handler
C4_Witness ==
    /\ pc = "done"
    /\ IsBotMessage(req)
    /\ EventOf(req).bot_id = Absent
    /\ EventOf(req).channel = Some("D1")
    /\ EventOf(req).thread_ts = Some("1")
    /\ req.retry_num = Absent
    /\ req.retry_reason = Absent
    /\ IsOk200
    /\ calls = <<>>

-----------------------------------------------------------------------------
(* C5 *)

IsChannelChatter(r) ==
    /\ IsEventOfType(r, "message")
    /\ EventOf(r).bot_id = Absent
    /\ EventOf(r).subtype # Some("bot_message")
    /\ ~StartsWith(Get(EventOf(r).channel, ""), "D")
    /\ EventOf(r).thread_ts = Absent

\* C5: a message event with no bot_id and no bot subtype, in a channel that is no DM
\* and with no thread_ts, makes no backend and no platform call and is answered
\* 200 "ok"; the request ends otherwise only when the retry check raised first.
C5_ChannelChatterIgnored ==
    (served > 0 /\ IsChannelChatter(req))
    => /\ pc = "done"
       /\ calls = <<>>
       /\ IsOk200 \/ RaisedAtRetryCheck
       /\ PastRetryCheck(req) => IsOk200

\* a human's message in channel C1, outside any thread, reached the handler
C5_Witness ==
    /\ pc = "done"
    /\ IsChannelChatter(req)
    /\ EventOf(req).channel = Some("C1")
    /\ EventOf(req).text = Some("hi")
    /\ req.allow_retry = Some(TRUE)
    /\ IsOk200
    /\ calls = <<>>

-----------------------------------------------------------------------------
(* C6 *)

IsDmHumanMessage(r) ==
    /\ IsEventOfType(r, "message")
    /\ EventOf(r).bot_id = Absent
    /\ EventOf(r).subtype # Some("bot_message")
    /\ StartsWith(Get(EventOf(r).channel, ""), "D")

HistoryFetchRaised ==
    \E i \in 1..Len(calls) :
        calls[i].op = "conversations_replies" /\ calls[i].outcome = "Exception"

\* C6: for a human's message event in a DM channel the backend is invoked with
\* conversation_id "slack-" + channel + "-" + (thread_ts if present, else ts), the
\* event's text as query, empty inputs, blocking mode and the user "slack-user"; it
\* is invoked once whenever the request gets past the retry check and the history
\* fetch lets no exception through.
C6_DmConversationKey ==
    (served > 0 /\ IsDmHumanMessage(req) /\ ResolvedIdentity(EventOf(req)) # Absent)
    => /\ \A i \in 1..Len(calls) :
            calls[i].op = "chat.invoke"
            => /\ calls[i].conversation_id =
                      "slack-" \o Val(EventOf(req).channel) \o "-"
                               \o Val(ResolvedIdentity(EventOf(req)))
               /\ calls[i].query = (IF EventOf(req).text = Absent THEN ""
                                    ELSE Val(EventOf(req).text))
               /\ calls[i].inputs = <<>>
               /\ calls[i].response_mode = "blocking"
               /\ calls[i].user = "slack-user"
       /\ Len(CallsOf("chat.invoke")) <= 1
       /\ (pc = "done" /\ PastRetryCheck(req) /\ ~HistoryFetchRaised)
            => Len(CallsOf("chat.invoke")) = 1

\* a first DM message (no thread_ts, ts 2) reached the backend under slack-D1-2
C6_Witness ==
    /\ pc = "done"
    /\ IsDmHumanMessage(req)
    /\ EventOf(req).thread_ts = Absent
    /\ EventOf(req).ts = Some("2")
    /\ EventOf(req).text = Some("<@U1> hi")
    /\ Len(CallsOf("chat.invoke")) = 1
    /\ CallsOf("chat.invoke")[1].conversation_id = "slack-D1-2"
    /\ CallsOf("chat.invoke")[1].query = "<@U1> hi"

-----------------------------------------------------------------------------
(* C7 *)

\* C7: any two backend invocations, of mentions or messages and of separate
\* requests, whose events have the same channel and the same resolved thread
\* identity carry the same conversation_id: a first message (by its ts) and the
\* replies of its thread (by thread_ts) share one backend conversation.
C7_StableConversationKey ==
    \A a \in convLog, b \in convLog :
        ( /\ Get(a.event.channel, "") = Get(b.event.channel, "")
          /\ ResolvedIdentity(a.event) = ResolvedIdentity(b.event) )
        => a.conversation_id = b.conversation_id

\* a first DM message with ts 1 and a later mention in its thread (thread_ts 1,
\* own ts 2) were both handed to the backend, under the same conversation_id
C7_Witness ==
    \E a \in convLog, b \in convLog :
        /\ a.event.type = Some("message")
        /\ a.event.thread_ts = Absent
        /\ a.event.ts = Some("1")
        /\ b.event.type = Some("app_mention")
        /\ b.event.thread_ts = Some("1")
        /\ b.event.ts = Some("2")
        /\ a.event.channel = Some("D1")
        /\ b.event.channel = Some("D1")
        /\ a.conversation_id = "slack-D1-1"
        /\ b.conversation_id = "slack-D1-1"

-----------------------------------------------------------------------------
(* C8 *)

BackendRaised ==
    \E i \in 1..Len(calls) : calls[i].op = "chat.invoke" /\ calls[i].outcome = "Exception"

\* C8: when the backend invocation raises, the request ends in an HTTP 200 response
\* whose body carries the error, an apology has been posted (best effort) to the
\* channel under the same thread identity, and the answer is not posted; a failure
\* of the apology post does not change the 200 response.
C8_BackendFailureReported ==
    (pc = "done" /\ BackendRaised)
    => /\ IsHttp200
       /\ StartsWith(response.body, "An error occurred")
       /\ \E i \in 1..Len(calls) :
            /\ IsApologyPost(calls[i])
            /\ calls[i].channel = channel
            /\ calls[i].thread_ts = thread_ts
       /\ \A i \in 1..Len(calls) : ~IsAnswerPost(calls[i])

-----------------------------------------------------------------------------
(* C9 *)

\* the replies without the anchor, in their order, each as {role, content}
ExpectedHistory(messages, anchor) ==
    LET kept == SelectSeq(messages, LAMBDA m : m.ts # anchor)
    IN  [i \in 1..Len(kept) |->
            [role |-> IF kept[i].bot_id # Absent THEN "assistant" ELSE "user",
             content |-> IF kept[i].text = Absent THEN "" ELSE Val(kept[i].text)]]

\* C9: the thread history is, in the platform's order, one {role, content} entry for
\* every reply but the one whose ts is the anchor, the role being assistant exactly
\* for replies with a bot identifier; when the platform answers with SlackApiError
\* the history is empty and nothing is raised; either way the backend is invoked next.
C9_ThreadHistory ==
    \A i \in 1..Len(calls) :
        calls[i].op = "conversations_replies"
        => /\ calls[i].channel = channel
           /\ calls[i].ts = thread_ts
           /\ calls[i].outcome = "ok"
                => thread_history = ExpectedHistory(Get(calls[i].result, <<>>), calls[i].ts)
           /\ calls[i].outcome = "SlackApiError" => thread_history = <<>>
           /\ calls[i].outcome \in {"ok", "SlackApiError"}
                => pc = "backend" \/ Len(CallsOf("chat.invoke")) = 1

\* the thread of anchor 1 came back as the anchor and a bot's reply: the history is
\* the bot's reply alone, and the backend has been invoked
C9_Witness ==
    /\ pc = "post"
    /\ thread_ts = Some("1")
    /\ Len(calls) = 2
    /\ calls[1].op = "conversations_replies"
    /\ calls[1].result = Some(<<Reply(Some("1"), Absent, Some("q")),
                                Reply(Some("2"), Some("B1"), Absent)>>)
    /\ thread_history = <<[role |-> "assistant", content |-> ""]>>
    /\ calls[2].op = "chat.invoke"

-----------------------------------------------------------------------------
(* C10 *)

CallRank(c) ==
    CASE c.op = "conversations_replies" -> 1
      [] c.op = "chat.invoke" -> 2
      [] c.op = "chat_postMessage" -> 3

AnswerAfterBackendSuccess ==
    \A j \in 1..Len(calls) :
        IsAnswerPost(calls[j])
        => \E i \in 1..(j - 1) : calls[i].op = "chat.invoke" /\ calls[i].outcome = "ok"

Delivered(c) == c.op = "chat_postMessage" /\ c.outcome = "ok"

NeverBothDelivered ==
    ~ \E i \in 1..Len(calls), j \in 1..Len(calls) :
        /\ IsAnswerPost(calls[i]) /\ Delivered(calls[i])
        /\ IsApologyPost(calls[j]) /\ Delivered(calls[j])

\* C10, as claimed: the calls of one request are, in this order and at most once
\* each, the history fetch, the backend invocation and the message post; the answer
\* is posted only after the backend succeeded; an answer and an apology are never
\* both delivered.
C10_EachCallAtMostOnce ==
    /\ \A i \in 1..Len(calls), j \in 1..Len(calls) :
          i < j => CallRank(calls[i]) < CallRank(calls[j])
    /\ AnswerAfterBackendSuccess
    /\ NeverBothDelivered

\* C10, amended: the history fetch and the backend invocation happen at most once
\* each, in this order and before any message post; the answer is posted at most
\* once and only after the backend succeeded; chat_postMessage is called a second
\* time only for the apology that follows an answer post which raised something
\* other than SlackApiError; an answer and an apology are never both delivered.
C10_CallOrder ==
    LET posts == CallsOf("chat_postMessage")
    IN  /\ \A i \in 1..Len(calls), j \in 1..Len(calls) :
              i < j => \/ CallRank(calls[i]) < CallRank(calls[j])
                       \/ CallRank(calls[i]) = 3 /\ CallRank(calls[j]) = 3
        /\ Len(posts) <= 2
        /\ Len(posts) = 2
             => /\ IsAnswerPost(posts[1])
                /\ posts[1].outcome = "Exception"
                /\ IsApologyPost(posts[2])
        /\ AnswerAfterBackendSuccess
        /\ NeverBothDelivered

\* the answer post raised a transport error and the apology was then delivered
C10_Witness ==
    /\ pc = "done"
    /\ Len(calls) = 4
    /\ calls[1].op = "conversations_replies"
    /\ calls[2].op = "chat.invoke"
    /\ calls[2].outcome = "ok"
    /\ IsAnswerPost(calls[3])
    /\ calls[3].outcome = "Exception"
    /\ IsApologyPost(calls[4])
    /\ Delivered(calls[4])
    /\ IsHttp200

====
